---- MODULE Spec2Model ----
(***************************************************************************)
(* A model of ycmd's PythonCompleter (ycmd/completers/python/              *)
(* python_completer.py): the Jedi lock around the seven engine-backed      *)
(* operations, the four memo dictionaries of the completer (settings,      *)
(* per-file environment, per-interpreter environment, sys.path), the       *)
(* GoToDefinition traversal loop and the lazy detailing of candidates.     *)
(*                                                                         *)
(* Worker threads of the host run the handlers.  A step of a thread is one *)
(* dictionary read, one dictionary write together with the call that       *)
(* produced the value, one lock operation, or one entry into / return from *)
(* Jedi.  Text is a sequence of one-character strings, so that joining and *)
(* slicing are computed, not assumed.                                      *)
(***************************************************************************)
EXTENDS Integers, Sequences, FiniteSets, TLC

\* ------------------------------------------------------------------ bounds
MaxResults == 2      \* longest sequence one Jedi query returns
MaxFrontier == 4     \* longest definition list the traversal is followed to
MaxRounds == 5       \* the round counter saturates here
MaxRequests == 2     \* requests one worker thread handles

\* ---------------------------------------------------------------- universe
Workers == {1, 2}
NoThread == 0

Files == {"a.py"}
Tokens == {"c1", "c2"}
Keys == Files \X Tokens

\* ------------------------------------------------------------------- text
RECURSIVE Join(_, _)
\* sep.join( parts )
Join(parts, sep) ==
  IF parts = <<>> THEN <<>>
  ELSE IF Len(parts) = 1 THEN parts[1]
  ELSE parts[1] \o sep \o Join(Tail(parts), sep)

\* text[ n: ]
DropPrefix(text, n) ==
  IF Len(text) <= n THEN <<>> ELSE SubSeq(text, n + 1, Len(text))

CommaSpace == <<",", " ">>
DocSeparator == <<"\n", "-", "-", "-", "\n">>

\* ------------------------------------------------ Jedi definitions (inputs)
\* What Jedi hands back: BaseDefinition objects.  module_path "" stands for
\* the None of a builtin, has_position FALSE for line and column being None
\* (line and column are then placeholders), has_params FALSE for an object
\* without a params attribute (AttributeError).
ParamX == [description |-> <<"p", "a", "r", "a", "m", " ", "x">>]

DefA == [name |-> "f", module_path |-> "m1.py", has_position |-> TRUE,
         line |-> 1, column |-> 0,
         description |-> <<"f">>, type |-> "function", docstring |-> <<>>,
         has_params |-> TRUE, params |-> <<ParamX>>]
DefB == [name |-> "f", module_path |-> "m1.py", has_position |-> TRUE,
         line |-> 3, column |-> 4,
         description |-> <<"f">>, type |-> "statement", docstring |-> <<"B">>,
         has_params |-> FALSE, params |-> <<>>]
DefC == [name |-> "f", module_path |-> "m2.py", has_position |-> TRUE,
         line |-> 1, column |-> 4,
         description |-> <<"f">>, type |-> "function", docstring |-> <<>>,
         has_params |-> TRUE, params |-> <<>>]
DefQ == [name |-> "g", module_path |-> "m2.py", has_position |-> TRUE,
         line |-> 2, column |-> 2,
         description |-> <<"g">>, type |-> "instance", docstring |-> <<"Q">>,
         has_params |-> FALSE, params |-> <<>>]
DefP == [name |-> "f", module_path |-> "", has_position |-> FALSE,
         line |-> 0, column |-> 0,
         description |-> <<"f">>, type |-> "function", docstring |-> <<>>,
         has_params |-> FALSE, params |-> <<>>]

Defs == {DefA, DefB, DefC, DefQ, DefP}

SeqsUpTo(S, n) == UNION {[1..k -> S] : k \in 0..n}

\* Families of sequences a Jedi query may return.
\* At most one definition per query, any definition:
Singles == {<<>>} \cup {<<d>> : d \in Defs}
\* up to MaxResults definitions per query, of one name:
Results == SeqsUpTo({DefA, DefB, DefP}, MaxResults)
\* and the few answers the threads of the concurrent model are given.
FewResults == {<<>>, <<DefA, DefB>>}

\* ------------------------------------------- interpreter paths (inputs)
\* A path is the sequence of its components.
NoPath == <<>>
HomeDir == <<"home">>
PathPython == <<"usr", "bin", "python3">>
PathTilde == <<"~", "..", "usr", "bin", "python3">>
PathMissing == <<"opt", "python">>

\* The executables that exist on the machine.
Executables == {PathPython}

\* user_options[ 'python_binary_path' ]
PythonBinaryPath == NoPath

\* ycmd.utils.ExpandVariablesInPath: os.path.expanduser / expandvars.
ExpandVariablesInPath(path) ==
  IF path # <<>> /\ Head(path) = "~" THEN HomeDir \o Tail(path) ELSE path

RECURSIVE NormPath(_)
\* os.path.normpath: drops "." and folds "dir/..".
NormPath(path) ==
  IF path = <<>> THEN <<>>
  ELSE LET init == NormPath(SubSeq(path, 1, Len(path) - 1))
           last == path[Len(path)]
       IN  IF last = "." THEN init
           ELSE IF last = ".."
                THEN IF init = <<>> THEN <<>>
                     ELSE SubSeq(init, 1, Len(init) - 1)
                ELSE Append(init, last)

\* ycmd.utils.FindExecutable: the path itself when it names an existing
\* executable (the file system follows ".." when it looks the file up),
\* NoPath (None) otherwise.
FindExecutable(path) ==
  IF NormPath(path) \in Executables THEN path ELSE NoPath

\* A resolution that takes every path for an executable.
ResolvedAnyway(interpreter_path) ==
  [found |-> TRUE, path |-> NormPath(ExpandVariablesInPath(interpreter_path))]

\* Lines 94-100: the dictionary key _EnvironmentForInterpreterPath uses.
\* found = FALSE is the RuntimeError of line 98.
ResolvedInterpreterPath(interpreter_path) ==
  IF interpreter_path = NoPath
  THEN [found |-> TRUE, path |-> NoPath]
  ELSE LET resolved == FindExecutable(ExpandVariablesInPath(interpreter_path))
       IN  IF resolved = NoPath
           THEN [found |-> FALSE, path |-> NoPath]
           ELSE [found |-> TRUE, path |-> NormPath(resolved)]

\* The executable of jedi.get_default_environment().
DefaultExecutable == PathPython

\* environment.get_sys_path()
EnvSysPath(environment) == <<"lib">>

\* ------------------------------------------------- extra conf (inputs)
\* What extra_conf_store.ModuleForSourceFile( filepath ) offers for a request:
\* has_module: a module was found; has_settings: it defines Settings and
\* Settings returns a dict; settings: that dict (sys_path_set: it carries a
\* 'sys_path' list); has_python_sys_path: it defines PythonSysPath.
ConfSettings(path, with_sys_path) ==
  [interpreter_path |-> path, sys_path_set |-> with_sys_path,
   sys_path |-> IF with_sys_path THEN <<"extra">> ELSE <<>>]

ConfNone == [has_module |-> FALSE, has_settings |-> FALSE,
             settings |-> ConfSettings(NoPath, FALSE),
             has_python_sys_path |-> FALSE]
ConfPython == [has_module |-> TRUE, has_settings |-> TRUE,
               settings |-> ConfSettings(PathPython, FALSE),
               has_python_sys_path |-> TRUE]
ConfTilde == [has_module |-> TRUE, has_settings |-> TRUE,
              settings |-> ConfSettings(PathTilde, TRUE),
              has_python_sys_path |-> FALSE]
ConfMissing == [has_module |-> TRUE, has_settings |-> TRUE,
                settings |-> ConfSettings(PathMissing, FALSE),
                has_python_sys_path |-> FALSE]

ExtraConfs == {ConfNone, ConfPython, ConfTilde, ConfMissing}

\* PythonCompleter._GetSettings
GetSettings(conf) ==
  IF conf.has_module /\ conf.has_settings
  THEN conf.settings
  ELSE ConfSettings(PythonBinaryPath, FALSE)

\* The extra confs of all requests alike, one of `confs`.
Uniform(confs) == {[k \in Keys |-> c] : c \in confs}

\* A dictionary that holds one entry, the last one stored.
Replace(dict, key, value) == [k \in {key} |-> value]

\* A dictionary that keeps nothing.
Forget(dict, key, value) == dict

\* dict[ key ] = value
Put(dict, key, value) ==
  [k \in DOMAIN dict \cup {key} |-> IF k = key THEN value ELSE dict[k]]

EmptyDict == [k \in {} |-> {}]

\* ------------------------------------------------------------------ state
VARIABLES
  jedi_lock,                         \* self._jedi_lock: its holder, or NoThread
  settings_for_file,                 \* self._settings_for_file
  environment_for_file,              \* self._environment_for_file
  environment_for_interpreter_path,  \* self._environment_for_interpreter_path
  sys_path_for_file,                 \* self._sys_path_for_file
  extra_conf,      \* the extra conf found for each ( filepath, client_data )
  resolve,         \* what goto_assignments answers at a definition's site
  entered,         \* number of threads inside Jedi
  engine_failed,   \* Jedi was entered while already entered
  candidates,      \* the completion candidates the host holds
  detailed_times,  \* per candidate: how often it has been detailed
  pc, op, request, budget,           \* per thread: position, handler, key
  caller,          \* per thread: who called _SettingsForRequest
  settings, environment,             \* per thread: locals of the cache code
  answer,          \* per thread: what the Jedi call in progress returned
  direct,          \* per thread: what the query at the cursor returned
  definitions, previous_definitions, index, keep_traversing, rounds,
  last,            \* the handler that left last, and what it returned
  watched,         \* whether the host keeps that record
  workers,         \* the worker threads the host runs
  settings_runs, environment_runs, sys_path_runs,  \* per key: executions
  created          \* per interpreter path: environments constructed

completer == <<jedi_lock, settings_for_file, environment_for_file,
               environment_for_interpreter_path, sys_path_for_file>>
caches == <<settings_for_file, environment_for_file,
            environment_for_interpreter_path, sys_path_for_file>>
world == <<extra_conf, resolve, watched, workers>>
engine == <<entered, engine_failed>>
batch == <<candidates, detailed_times>>
chase == <<answer, direct, definitions, previous_definitions, index,
           keep_traversing, rounds>>
locals == <<caller, settings, environment>>
counters == <<settings_runs, environment_runs, sys_path_runs, created>>
vars == <<completer, world, engine, batch, pc, op, request, budget, locals,
          chase, last, counters>>

GatedOps == {"ComputeCandidatesInner", "DetailCandidates", "GoToDefinition",
             "GoToType", "GoToReferences", "GetType", "GetDoc"}
UngatedOps == {"OnFileReadyToParse", "DebugInfo"}
AllOps == GatedOps \cup UngatedOps

NoKey == <<"", "">>
NoSettings == ConfSettings(NoPath, FALSE)
NoEnvironment == [interpreter_path |-> NoPath, executable |-> NoPath,
                  serial |-> 0]
NoResult == [kind |-> "none", locations |-> <<>>, text |-> <<>>]
Nothing == [thread |-> NoThread, op |-> "none", request |-> NoKey,
            direct |-> <<>>, definitions |-> <<>>, rounds |-> 0,
            result |-> NoResult]

\* __init__ (lines 42-48), every worker idle; the host runs one of the sets
\* `pools` of workers, each for `requests` requests, the extra confs are
\* one of `confs`, and what goto_assignments answers at the definitions is
\* one of `relations` as far as that goes.
InitWith(pools, confs, requests, relations, watch) ==
  /\ jedi_lock = NoThread
  /\ settings_for_file = EmptyDict
  /\ environment_for_file = EmptyDict
  /\ environment_for_interpreter_path = EmptyDict
  /\ sys_path_for_file = EmptyDict
  /\ extra_conf \in confs
  /\ resolve \in relations
  /\ watched = watch
  /\ workers \in pools
  /\ entered = 0
  /\ engine_failed = FALSE
  /\ candidates = <<>>
  /\ detailed_times = <<>>
  /\ pc = [t \in Workers |-> "idle"]
  /\ op = [t \in Workers |-> "none"]
  /\ request = [t \in Workers |-> NoKey]
  /\ budget = [t \in Workers |-> IF t \in workers THEN requests ELSE 0]
  /\ caller = [t \in Workers |-> "none"]
  /\ settings = [t \in Workers |-> NoSettings]
  /\ environment = [t \in Workers |-> NoEnvironment]
  /\ answer = [t \in Workers |-> <<>>]
  /\ direct = [t \in Workers |-> <<>>]
  /\ definitions = [t \in Workers |-> <<>>]
  /\ previous_definitions = [t \in Workers |-> <<>>]
  /\ index = [t \in Workers |-> 0]
  /\ keep_traversing = [t \in Workers |-> FALSE]
  /\ rounds = [t \in Workers |-> 0]
  /\ last = Nothing
  /\ settings_runs = [k \in Keys |-> 0]
  /\ environment_runs = [k \in Keys |-> 0]
  /\ sys_path_runs = [k \in Keys |-> 0]
  /\ created = EmptyDict

\* A handler that goes out of its `with` block with the lock still held.
LeaveHolding(t, result) ==
  /\ last' = IF watched
              THEN [thread |-> t, op |-> op[t], request |-> request[t],
                    direct |-> direct[t], definitions |-> definitions[t],
                    rounds |-> rounds[t], result |-> result]
              ELSE last
  /\ jedi_lock' = jedi_lock
  /\ pc' = [pc EXCEPT ![t] = "idle"]
  /\ op' = [op EXCEPT ![t] = "none"]
  /\ request' = [request EXCEPT ![t] = NoKey]
  /\ caller' = [caller EXCEPT ![t] = "none"]
  /\ settings' = [settings EXCEPT ![t] = NoSettings]
  /\ environment' = [environment EXCEPT ![t] = NoEnvironment]
  /\ answer' = [answer EXCEPT ![t] = <<>>]
  /\ direct' = [direct EXCEPT ![t] = <<>>]
  /\ definitions' = [definitions EXCEPT ![t] = <<>>]
  /\ previous_definitions' = [previous_definitions EXCEPT ![t] = <<>>]
  /\ index' = [index EXCEPT ![t] = 0]
  /\ keep_traversing' = [keep_traversing EXCEPT ![t] = FALSE]
  /\ rounds' = [rounds EXCEPT ![t] = 0]

\* ------------------------------------------------------- leaving a handler
\* The handler of thread t returns or raises `result`: a
\* `with self._jedi_lock` block it is in releases the lock on the way out,
\* and its locals are gone.
Leave(t, result) ==
  /\ last' = IF watched
              THEN [thread |-> t, op |-> op[t], request |-> request[t],
                    direct |-> direct[t], definitions |-> definitions[t],
                    rounds |-> rounds[t], result |-> result]
              ELSE last
  /\ jedi_lock' = IF jedi_lock = t THEN NoThread ELSE jedi_lock
  /\ pc' = [pc EXCEPT ![t] = "idle"]
  /\ op' = [op EXCEPT ![t] = "none"]
  /\ request' = [request EXCEPT ![t] = NoKey]
  /\ caller' = [caller EXCEPT ![t] = "none"]
  /\ settings' = [settings EXCEPT ![t] = NoSettings]
  /\ environment' = [environment EXCEPT ![t] = NoEnvironment]
  /\ answer' = [answer EXCEPT ![t] = <<>>]
  /\ direct' = [direct EXCEPT ![t] = <<>>]
  /\ definitions' = [definitions EXCEPT ![t] = <<>>]
  /\ previous_definitions' = [previous_definitions EXCEPT ![t] = <<>>]
  /\ index' = [index EXCEPT ![t] = 0]
  /\ keep_traversing' = [keep_traversing EXCEPT ![t] = FALSE]
  /\ rounds' = [rounds EXCEPT ![t] = 0]

\* What a step that does not leave the handler keeps as it is.
staying == <<jedi_lock, op, request, last>>

Raised(kind) == [kind |-> kind, locations |-> <<>>, text |-> <<>>]
Message(text) == [kind |-> "message", locations |-> <<>>, text |-> text]

\* ------------------------------------------------------ taking a request
\* The host calls handler o for ( filepath, client_data ) k on thread t.
StartRequest(t, ops, keys) ==
  /\ pc[t] = "idle"
  /\ budget[t] > 0
  /\ \E o \in ops, k \in keys :
       /\ op' = [op EXCEPT ![t] = o]
       /\ request' = [request EXCEPT ![t] = k]
       /\ pc' = [pc EXCEPT ![t] = IF o \in GatedOps THEN "acquire"
                                  ELSE "env_lookup"]
  /\ budget' = [budget EXCEPT ![t] = @ - 1]
  /\ UNCHANGED <<completer, world, engine, batch, locals, chase, last,
                 counters>>

\* A lock that anyone may take at any time.
LockIsFreeAlways == TRUE

\* threading.Lock.acquire, blocking
LockIsFree == jedi_lock = NoThread

\* with self._jedi_lock: (lines 206, 216, 280, 306, 314, 336, 347)
Acquire(t) ==
  /\ pc[t] = "acquire"
  /\ LockIsFree
  /\ jedi_lock' = t
  /\ pc' = [pc EXCEPT ![t] = IF op[t] = "DetailCandidates" THEN "detail"
                             ELSE "env_lookup"]
  /\ UNCHANGED <<caches, world, engine, batch, op, request, budget, locals,
                 chase, last, counters>>

\* ------------------------------------------------------------ the caches
\* One more execution for key k, in the record the host keeps.
Counted(runs, k) == IF watched THEN [runs EXCEPT ![k] = @ + 1] ELSE runs


\* A _GetJediScript that takes the lock itself.
Reacquiring(t, sys_path) ==
  IF op[t] \in UngatedOps
  THEN Leave(t, Raised("returned"))
  ELSE /\ pc' = [pc EXCEPT ![t] = "acquire"]
       /\ UNCHANGED <<staying, locals, chase>>

\* Where a thread goes once _SysPathForFile has returned sys_path: the
\* ungated handlers are finished (OnFileReadyToParse, line 59; DebugInfo,
\* lines 359-384), the gated ones build their jedi.Script.
AfterSysPath(t, sys_path) ==
  IF op[t] \in UngatedOps
  THEN Leave(t, IF op[t] = "DebugInfo"
                THEN [kind |-> "debug_info", locations |-> <<>>,
                      text |-> sys_path]
                ELSE Raised("returned"))
  ELSE /\ pc' = [pc EXCEPT ![t] = "script"]
       /\ UNCHANGED <<staying, locals, chase>>

\* _EnvironmentForRequest, lines 115-120: the lookup.
EnvironmentLookup(t) ==
  /\ pc[t] = "env_lookup"
  /\ IF request[t] \in DOMAIN environment_for_file
     THEN /\ environment' = [environment EXCEPT
                               ![t] = environment_for_file[request[t]]]
          /\ pc' = [pc EXCEPT ![t] = "sys_lookup"]
          /\ UNCHANGED <<caller, environment_runs>>
     ELSE /\ caller' = [caller EXCEPT ![t] = "env"]
          /\ pc' = [pc EXCEPT ![t] = "settings_lookup"]
          /\ environment_runs' = Counted(environment_runs, request[t])
          /\ UNCHANGED environment
  /\ UNCHANGED <<staying, caches, world, engine, batch, budget, settings,
                 chase, settings_runs, sys_path_runs, created>>

\* _GetSysPath, lines 130-135, given the dict _SettingsForRequest returned:
\* the working dict, and the returned dict after the extend of line 135
\* (update() copies references, so a 'sys_path' list of the returned dict
\* is the list that is extended).
WorkingSettings(cached, env) ==
  [interpreter_path |-> env.executable, sys_path_set |-> TRUE,
   sys_path |-> cached.sys_path \o EnvSysPath(env)]

ExtendedSettings(cached, env) ==
  IF cached.sys_path_set
  THEN [cached EXCEPT !.sys_path = @ \o EnvSysPath(env)]
  ELSE cached

\* Line 144 returns settings[ 'sys_path' ] itself: when the extra conf's
\* settings carry a 'sys_path' list and no PythonSysPath stands in, the list
\* _SysPathForFile stores (line 156) is the list of the cached settings, and
\* a later extend of line 135 for the same key lengthens the stored list too.
SharesSettingsList(conf) ==
  /\ GetSettings(conf).sys_path_set
  /\ ~(conf.has_module /\ conf.has_python_sys_path)

\* _SettingsForRequest returns `found` (the dict the cache holds) to its
\* caller: line 122 of _EnvironmentForRequest or line 133 of _GetSysPath.
SettingsReturn(t, found) ==
  IF caller[t] = "env"
  THEN /\ settings' = [settings EXCEPT ![t] = found]
       /\ settings_for_file' = Put(settings_for_file, request[t], found)
       /\ pc' = [pc EXCEPT ![t] = "env_resolve"]
       /\ UNCHANGED sys_path_for_file
  ELSE /\ settings' = [settings EXCEPT
                         ![t] = WorkingSettings(found, environment[t])]
       /\ settings_for_file' =
            Put(settings_for_file, request[t],
                ExtendedSettings(found, environment[t]))
       /\ sys_path_for_file' =
            IF /\ request[t] \in DOMAIN sys_path_for_file
               /\ SharesSettingsList(extra_conf[request[t]])
            THEN [sys_path_for_file EXCEPT
                    ![request[t]] = @ \o EnvSysPath(environment[t])]
            ELSE sys_path_for_file
       /\ pc' = [pc EXCEPT ![t] = "python_sys_path"]

\* _SettingsForRequest, lines 63-68: the lookup.
SettingsLookup(t) ==
  /\ pc[t] = "settings_lookup"
  /\ IF request[t] \in DOMAIN settings_for_file
     THEN SettingsReturn(t, settings_for_file[request[t]])
     ELSE /\ pc' = [pc EXCEPT ![t] = "get_settings"]
          /\ UNCHANGED <<settings, settings_for_file, sys_path_for_file>>
  /\ UNCHANGED <<staying, environment_for_file,
                 environment_for_interpreter_path, world,
                 engine, batch, budget, caller, environment, chase, counters>>

\* _SettingsForRequest, lines 70-73, with _GetSettings.
SettingsStore(t) ==
  /\ pc[t] = "get_settings"
  /\ SettingsReturn(t, GetSettings(extra_conf[request[t]]))
  /\ settings_runs' = Counted(settings_runs, request[t])
  /\ UNCHANGED <<staying, environment_for_file,
                 environment_for_interpreter_path, world,
                 engine, batch, budget, caller, environment, chase,
                 environment_runs, sys_path_runs, created>>

\* _EnvironmentForInterpreterPath, lines 93-105: resolve the path (or raise)
\* and look the environment up.
EnvironmentForInterpreterPath(t) ==
  /\ pc[t] = "env_resolve"
  /\ LET resolved == ResolvedInterpreterPath(settings[t].interpreter_path)
     IN  IF ~resolved.found
         THEN Leave(t, Raised("ResolutionError"))
         ELSE /\ IF resolved.path \in DOMAIN environment_for_interpreter_path
                 THEN /\ environment' = [environment EXCEPT ![t] =
                            environment_for_interpreter_path[resolved.path]]
                      /\ pc' = [pc EXCEPT ![t] = "env_store"]
                 ELSE /\ pc' = [pc EXCEPT ![t] = "env_create"]
                      /\ UNCHANGED environment
              /\ UNCHANGED <<staying, caller, settings, chase>>
  /\ UNCHANGED <<caches, world, engine, batch, budget, counters>>

\* The raw string as the key.
RawInterpreterPath(interpreter_path) == interpreter_path

\* The key _EnvironmentForInterpreterPath stores a new environment under.
EnvironmentKey(interpreter_path) ==
  ResolvedInterpreterPath(interpreter_path).path

\* _EnvironmentForInterpreterPath, lines 108-111: construct and store.
EnvironmentCreate(t) ==
  /\ pc[t] = "env_create"
  /\ LET key == EnvironmentKey(settings[t].interpreter_path)
         serial == IF key \in DOMAIN created THEN created[key] + 1 ELSE 1
         new == [interpreter_path |-> key,
                 executable |-> IF key = NoPath THEN DefaultExecutable
                                ELSE key,
                 serial |-> serial]
     IN  /\ created' = Put(created, key, serial)
         /\ environment_for_interpreter_path' =
              Put(environment_for_interpreter_path, key, new)
         /\ environment' = [environment EXCEPT ![t] = new]
  /\ pc' = [pc EXCEPT ![t] = "env_store"]
  /\ UNCHANGED <<staying, settings_for_file, environment_for_file,
                 sys_path_for_file, world, engine, batch, budget, caller,
                 settings, chase, settings_runs, environment_runs,
                 sys_path_runs>>

\* _EnvironmentForRequest, lines 125-126.
EnvironmentStore(t) ==
  /\ pc[t] = "env_store"
  /\ environment_for_file' =
       Put(environment_for_file, request[t], environment[t])
  /\ pc' = [pc EXCEPT ![t] = "sys_lookup"]
  /\ UNCHANGED <<staying, settings_for_file,
                 environment_for_interpreter_path, sys_path_for_file, world,
                 engine, batch, budget, locals, chase, counters>>

\* _SysPathForFile, lines 148-153: the lookup.
SysPathLookup(t) ==
  /\ pc[t] = "sys_lookup"
  /\ IF request[t] \in DOMAIN sys_path_for_file
     THEN AfterSysPath(t, sys_path_for_file[request[t]])
     ELSE /\ caller' = [caller EXCEPT ![t] = "sys"]
          /\ pc' = [pc EXCEPT ![t] = "settings_lookup"]
          /\ UNCHANGED <<staying, settings, environment, chase>>
  /\ UNCHANGED <<caches, world, engine, batch, budget, counters>>

\* The extra conf's PythonSysPath( **settings ).
PythonSysPathOverride(kwargs) ==
  kwargs.interpreter_path \o <<"site">> \o kwargs.sys_path

\* _GetSysPath, lines 137-144.
GetSysPath(conf, working) ==
  IF conf.has_module /\ conf.has_python_sys_path
  THEN PythonSysPathOverride(working)
  ELSE working.sys_path

\* The working dict of thread t as it is when lines 137-144 read it: a
\* 'sys_path' list it took over from the cached settings (line 133) has the
\* contents that list has by now.
CurrentSettings(t) ==
  IF GetSettings(extra_conf[request[t]]).sys_path_set
  THEN [settings[t] EXCEPT
          !.sys_path = settings_for_file[request[t]].sys_path]
  ELSE settings[t]

\* _GetSysPath, lines 137-144, and _SysPathForFile, lines 156-157.
SysPathStore(t) ==
  /\ pc[t] = "python_sys_path"
  /\ LET sys_path == GetSysPath(extra_conf[request[t]], CurrentSettings(t))
     IN  /\ sys_path_for_file' = Put(sys_path_for_file, request[t], sys_path)
         /\ AfterSysPath(t, sys_path)
  /\ sys_path_runs' = Counted(sys_path_runs, request[t])
  /\ UNCHANGED <<settings_for_file, environment_for_file,
                 environment_for_interpreter_path, world, engine, batch,
                 budget, settings_runs, environment_runs, created>>

\* ------------------------------------------------------------------ Jedi
\* The handler of thread t has its jedi.Script (_GetJediScript, lines
\* 169-174, _GetJediScriptForDefinition, lines 184-189, or the completion
\* object of line 221) and calls into Jedi.  Jedi notices when it is
\* entered while another thread is inside.
EnterJedi(t) ==
  /\ pc[t] = "script"
  /\ entered' = entered + 1
  /\ engine_failed' = (engine_failed \/ entered > 0)
  /\ pc' = [pc EXCEPT ![t] = "jedi"]
  /\ UNCHANGED <<staying, caches, world, batch, budget, locals, chase,
                 counters>>

\* What goto_assignments answers at the site of definition d: chosen when
\* the site is first asked about, the same ever after.
SiteAnswers(d, results) ==
  IF d \in DOMAIN resolve THEN {resolve[d]} ELSE results

\* The call returns: completions(), goto_assignments(), goto_definitions()
\* or usages() at the cursor (lines 212, 287, 307, 315, 337, 348),
\* goto_assignments() at a definition (line 274), or the attributes of a
\* completion (lines 222-225).
JediReturns(t, results) ==
  /\ pc[t] = "jedi"
  /\ entered' = entered - 1
  /\ pc' = [pc EXCEPT ![t] = "answer"]
  /\ IF op[t] = "DetailCandidates"
     THEN UNCHANGED <<answer, direct, resolve>>
     ELSE IF op[t] = "GoToDefinition" /\ index[t] > 0
     THEN LET d == previous_definitions[t][index[t]]
          IN  /\ \E r \in SiteAnswers(d, results) :
                   /\ answer' = [answer EXCEPT ![t] = r]
                   /\ resolve' = Put(resolve, d, r)
              /\ UNCHANGED direct
     ELSE /\ \E r \in results :
               /\ answer' = [answer EXCEPT ![t] = r]
               /\ direct' = IF watched THEN [direct EXCEPT ![t] = r]
                            ELSE direct
          /\ UNCHANGED resolve
  /\ UNCHANGED <<staying, caches, extra_conf, watched, workers, engine_failed,
                 batch, budget, locals, definitions, previous_definitions, index,
                 keep_traversing, rounds, counters>>

\* The call raises: the exception leaves the handler.
JediRaises(t) ==
  /\ pc[t] = "jedi"
  /\ entered' = entered - 1
  /\ Leave(t, Raised("EngineError"))
  /\ UNCHANGED <<caches, world, engine_failed, batch, budget, counters>>

\* responses.BuildGoToResponse as _BuildGoToResponse calls it.
GoToLocation(definition, described) ==
  [filepath |-> definition.module_path,
   line_num |-> definition.line,
   column_num |-> definition.column + 1,
   description |-> IF described THEN definition.description ELSE <<>>]

\* definition.column + 1 (lines 253 and 260) is a TypeError when the column
\* is None.
HasColumn(definition) == definition.has_position

\* _BuildGoToResponse, lines 248-261.
BuildGoToResponse(defs) ==
  IF \E i \in 1..Len(defs) : ~HasColumn(defs[i])
  THEN Raised("TypeError")
  ELSE IF Len(defs) = 1
  THEN [kind |-> "location", locations |-> <<GoToLocation(defs[1], FALSE)>>,
        text |-> <<>>]
  ELSE [kind |-> "locations",
        locations |-> [i \in 1..Len(defs) |-> GoToLocation(defs[i], TRUE)],
        text |-> <<>>]

\* param.description[ 6: ]
ParamText(param) == DropPrefix(param.description, 6)

\* _BuildTypeInfo, lines 322-332.
BuildTypeInfo(definition) ==
  IF definition.has_params
  THEN definition.description \o <<"(">>
         \o Join([i \in 1..Len(definition.params) |->
                   ParamText(definition.params[i])], CommaSpace) \o <<")">>
  ELSE definition.description

\* definition.docstring()
DocString(definition) == definition.docstring

\* Lines 308-310 and 316-318: the result of _GoToType and _GoToReferences.
GoToResult(defs) ==
  IF defs # <<>> THEN BuildGoToResponse(defs) ELSE Raised("NavigationError")

\* Lines 338-343: the result of _GetType.
GetTypeResult(defs) ==
  LET type_info == Join([i \in 1..Len(defs) |-> BuildTypeInfo(defs[i])],
                        CommaSpace)
  IN  IF type_info # <<>> THEN Message(type_info)
      ELSE Raised("NavigationError")

\* Lines 349-353: the result of _GetDoc.
GetDocResult(defs) ==
  LET documentation == Join([i \in 1..Len(defs) |-> DocString(defs[i])],
                            DocSeparator)
  IN  IF documentation # <<>> THEN Message(documentation)
      ELSE Raised("NavigationError")

QueryOps == {"GoToType", "GoToReferences", "GetType", "GetDoc"}

\* _GoToType, _GoToReferences, _GetType, _GetDoc after their Jedi call.
QueryRespond(t) ==
  /\ pc[t] = "answer"
  /\ op[t] \in QueryOps
  /\ Leave(t, CASE op[t] = "GetType" -> GetTypeResult(answer[t])
                [] op[t] = "GetDoc" -> GetDocResult(answer[t])
                [] OTHER -> GoToResult(answer[t]))
  /\ UNCHANGED <<caches, world, engine, batch, budget, counters>>

\* ------------------------------------------------------- GoToDefinition
\* A filter by name alone.
SameName(definition, d) == d.name = definition.name

\* Lines 275-278: the condition of the filter.
SameNameElsewhere(definition, d) ==
  /\ d.name = definition.name
  /\ \/ d.module_path # definition.module_path
     \/ d.line # definition.line
     \/ d.column # definition.column

\* _GoToDefinitionsWithSameName, lines 275-278, on what Jedi returned.
GoToDefinitionsWithSameName(definition, found) ==
  SelectSeq(found, LAMBDA d : SameNameElsewhere(definition, d))

\* Line 267: a definition without module path is not looked at again.
HasModulePath(definition) == definition.module_path # ""

\* Lines 287-288: the definitions at the cursor start the traversal.
AssignmentsRespond(t) ==
  /\ pc[t] = "answer"
  /\ op[t] = "GoToDefinition"
  /\ index[t] = 0
  /\ definitions' = [definitions EXCEPT ![t] = answer[t]]
  /\ keep_traversing' = [keep_traversing EXCEPT ![t] = TRUE]
  /\ pc' = [pc EXCEPT ![t] = "while"]
  /\ UNCHANGED <<staying, caches, world, engine, batch, budget, locals,
                 answer, direct, previous_definitions, index, rounds,
                 counters>>

\* Lines 300-302: the result of _GoToDefinition.
GoToDefinitionResult(defs) ==
  IF defs # <<>> THEN BuildGoToResponse(defs) ELSE Raised("NavigationError")

\* A loop that makes one round and no more.
FirstRoundOnly(t) == rounds[t] = 0

\* Line 289: while keep_traversing
StillTraversing(t) == keep_traversing[t]

\* Lines 289-292, the head of the while loop, and lines 300-302 after it.
While(t) ==
  /\ pc[t] = "while"
  /\ IF StillTraversing(t)
     THEN /\ keep_traversing' = [keep_traversing EXCEPT ![t] = FALSE]
          /\ previous_definitions' =
               [previous_definitions EXCEPT ![t] = definitions[t]]
          /\ definitions' = [definitions EXCEPT ![t] = <<>>]
          /\ index' = [index EXCEPT ![t] = 1]
          /\ rounds' = [rounds EXCEPT
                          ![t] = IF @ < MaxRounds THEN @ + 1 ELSE @]
          /\ pc' = [pc EXCEPT ![t] = "for"]
          /\ UNCHANGED <<staying, locals, answer, direct>>
     ELSE Leave(t, GoToDefinitionResult(definitions[t]))
  /\ UNCHANGED <<caches, world, engine, batch, budget, counters>>

\* A for loop that lets the lock go before each definition.
ForUnlocked(t) ==
  /\ pc[t] = "for"
  /\ jedi_lock' = IF jedi_lock = t THEN NoThread ELSE jedi_lock
  /\ pc' = [pc EXCEPT ![t] = IF index[t] > Len(previous_definitions[t])
                             THEN "while" ELSE "env_lookup"]
  /\ UNCHANGED <<op, request, last, caches, world, engine, batch, budget,
                 locals, chase, counters>>

\* Lines 293-294 and 266-273: the next definition of the for loop; one with
\* a module path gets a jedi.Script of its own (_GetJediScriptForDefinition,
\* lines 178-183).
For(t) ==
  /\ pc[t] = "for"
  /\ IF index[t] > Len(previous_definitions[t])
     THEN /\ pc' = [pc EXCEPT ![t] = "while"]
          /\ UNCHANGED <<definitions, index>>
     ELSE LET definition == previous_definitions[t][index[t]]
          IN  IF HasModulePath(definition)
              THEN /\ pc' = [pc EXCEPT ![t] = "env_lookup"]
                   /\ UNCHANGED <<definitions, index>>
              ELSE /\ definitions' = [definitions EXCEPT
                                        ![t] = Append(@, definition)]
                   /\ index' = [index EXCEPT ![t] = @ + 1]
                   /\ UNCHANGED pc
  /\ UNCHANGED <<staying, caches, world, engine, batch, budget, locals,
                 answer, direct, previous_definitions, keep_traversing,
                 rounds, counters>>

\* Lines 295-299: the list after the definition whose goto_definitions are
\* given, and whether the traversal goes on.
Extended(defs, definition, goto_definitions) ==
  IF goto_definitions # <<>>
  THEN defs \o goto_definitions
  ELSE Append(defs, definition)

\* A traversal that never goes on.
NeverAdvances(goto_definitions) == FALSE

Advances(goto_definitions) == goto_definitions # <<>>

\* The least length the list of definitions has at the end of the round,
\* when `extended` is the list so far: each definition still to come adds
\* at least itself.
Frontier(t, extended) ==
  Len(extended) + (Len(previous_definitions[t]) - index[t])

\* Lines 294-299 for the definition whose goto_assignments() has returned.
SameNameRespond(t) ==
  /\ pc[t] = "answer"
  /\ op[t] = "GoToDefinition"
  /\ index[t] > 0
  /\ LET definition == previous_definitions[t][index[t]]
         goto_definitions == GoToDefinitionsWithSameName(definition, answer[t])
         extended == Extended(definitions[t], definition, goto_definitions)
     IN  /\ Frontier(t, extended) <= MaxFrontier
         /\ definitions' = [definitions EXCEPT ![t] = extended]
         /\ keep_traversing' =
              [keep_traversing EXCEPT
                 ![t] = IF Advances(goto_definitions) THEN TRUE ELSE @]
  /\ index' = [index EXCEPT ![t] = @ + 1]
  /\ pc' = [pc EXCEPT ![t] = "for"]
  /\ UNCHANGED <<staying, caches, world, engine, batch, budget, locals,
                 answer, direct, previous_definitions, rounds, counters>>

\* The traversal is followed no further once the list of definitions would
\* grow past MaxFrontier.
Truncate(t) ==
  /\ pc[t] = "answer"
  /\ op[t] = "GoToDefinition"
  /\ index[t] > 0
  /\ LET definition == previous_definitions[t][index[t]]
         goto_definitions == GoToDefinitionsWithSameName(definition, answer[t])
     IN  Frontier(t, Extended(definitions[t], definition, goto_definitions))
           > MaxFrontier
  /\ Leave(t, Raised("Truncated"))
  /\ UNCHANGED <<caches, world, engine, batch, budget, counters>>

\* ------------------------------------------------------------ candidates
NoDetail == <<>>

\* responses.BuildCompletionData as lines 207-211 call it: the Jedi
\* completion itself is the extra_data.
BuildCompletionData(completion) ==
  [insertion_text |-> completion.name,
   extra_data |-> [is_dict |-> FALSE, completion |-> <<completion>>,
                   location |-> <<>>],
   extra_menu_info |-> NoDetail, detailed_info |-> NoDetail, kind |-> ""]

\* A detailing that leaves the Jedi completion in extra_data.
KeepCompletion(completion) ==
  [is_dict |-> FALSE, completion |-> <<completion>>, location |-> <<>>]

\* _GetExtraData, lines 193-202 (None and 0 are both false).
GetExtraData(completion) ==
  [is_dict |-> TRUE, completion |-> <<>>,
   location |-> IF completion.module_path # "" /\ completion.has_position
                   /\ completion.line # 0 /\ completion.column # 0
                THEN <<[filepath |-> completion.module_path,
                        line_num |-> completion.line,
                        column_num |-> completion.column + 1]>>
                ELSE <<>>]

\* Lines 221-225: the candidate, detailed.
Detailed(candidate) ==
  LET completion == candidate.extra_data.completion[1]
  IN  [insertion_text |-> candidate.insertion_text,
       extra_menu_info |-> BuildTypeInfo(completion),
       detailed_info |-> DocString(completion),
       kind |-> completion.type,
       extra_data |-> GetExtraData(completion)]

\* Line 218: isinstance( candidate[ 'extra_data' ], dict )
AlreadyDetailed(candidate) == candidate.extra_data.is_dict

CandidatesResult == [kind |-> "candidates", locations |-> <<>>, text |-> <<>>]

\* ComputeCandidatesInner, lines 207-212, after completions() returned.
CompletionsRespond(t) ==
  /\ pc[t] = "answer"
  /\ op[t] = "ComputeCandidatesInner"
  /\ candidates' = [i \in 1..Len(answer[t]) |->
                      BuildCompletionData(answer[t][i])]
  /\ detailed_times' = [i \in 1..Len(answer[t]) |-> 0]
  /\ Leave(t, CandidatesResult)
  /\ UNCHANGED <<caches, world, engine, budget, counters>>

\* DetailCandidates, lines 217-221 and 226: the next candidate of the loop.
DetailNext(t) ==
  /\ pc[t] = "detail"
  /\ IF index[t] >= Len(candidates)
     THEN Leave(t, CandidatesResult)
     ELSE /\ IF AlreadyDetailed(candidates[index[t] + 1])
             THEN /\ index' = [index EXCEPT ![t] = @ + 1]
                  /\ UNCHANGED pc
             ELSE /\ pc' = [pc EXCEPT ![t] = "script"]
                  /\ UNCHANGED index
          /\ UNCHANGED <<staying, locals, answer, direct, definitions,
                         previous_definitions, keep_traversing, rounds>>
  /\ UNCHANGED <<caches, world, engine, batch, budget, counters>>

\* DetailCandidates, lines 222-225.
DetailRespond(t) ==
  /\ pc[t] = "answer"
  /\ op[t] = "DetailCandidates"
  /\ LET i == index[t] + 1
     IN  IF i <= Len(candidates) /\ ~AlreadyDetailed(candidates[i])
         THEN /\ candidates' = [candidates EXCEPT ![i] = Detailed(@)]
              /\ detailed_times' = [detailed_times EXCEPT ![i] = @ + 1]
         ELSE UNCHANGED batch
  /\ index' = [index EXCEPT ![t] = @ + 1]
  /\ pc' = [pc EXCEPT ![t] = "detail"]
  /\ UNCHANGED <<staying, caches, world, engine, budget, locals, answer,
                 direct, definitions, previous_definitions, keep_traversing,
                 rounds, counters>>

\* ------------------------------------------------------- specifications
\* The steps of the cache code, which every handler takes.
Common(t, ops, keys) ==
  \/ StartRequest(t, ops, keys)
  \/ EnvironmentLookup(t)
  \/ SettingsLookup(t)
  \/ SettingsStore(t)
  \/ EnvironmentForInterpreterPath(t)
  \/ EnvironmentCreate(t)
  \/ EnvironmentStore(t)
  \/ SysPathLookup(t)
  \/ SysPathStore(t)

\* The lock and the calls into Jedi, which every gated handler takes.
Gated(t, results) ==
  \/ Acquire(t)
  \/ EnterJedi(t)
  \/ JediReturns(t, results)
  \/ JediRaises(t)

Traversal(t) ==
  \/ AssignmentsRespond(t)
  \/ While(t)
  \/ For(t)
  \/ SameNameRespond(t)

Detailing(t) ==
  \/ CompletionsRespond(t)
  \/ DetailNext(t)
  \/ DetailRespond(t)

OneKey == {<<"a.py", "c1">>}

\* goto_assignments at DefA leads to DefB, and from there nowhere or back.
RelChain == (DefA :> <<DefB>>) @@ (DefB :> <<>>)
RelCycle == (DefA :> <<DefB>>) @@ (DefB :> <<DefA>>)

\* Two worker threads serving any requests for one file.
Init == InitWith({Workers}, Uniform({ConfPython, ConfMissing}), MaxRequests,
                 {RelChain, RelCycle}, FALSE)
Next ==
  \E t \in Workers :
    \/ Common(t, AllOps, OneKey)
    \/ Gated(t, FewResults)
    \/ QueryRespond(t)
    \/ Traversal(t)
    \/ Detailing(t)
Spec == Init /\ [][Next]_vars

\* One worker thread following definitions from the cursor, Jedi answering
\* with at most one definition per query; what it answers at a definition's
\* site is settled when the site is first asked about.
InitChain == InitWith({{1}}, Uniform({ConfPython}), 1, {EmptyDict}, TRUE)
NextChain ==
  \E t \in Workers :
    \/ Common(t, {"GoToDefinition"}, OneKey)
    \/ Gated(t, Singles)
    \/ Traversal(t)
ChainSpec == InitChain /\ [][NextChain]_vars

\* The same with up to MaxResults definitions per query, the thread running
\* on whenever it can.
InitChase == InitWith({{1}}, Uniform({ConfPython}), 1, {EmptyDict}, TRUE)
NextChase ==
  \E t \in Workers :
    \/ Common(t, {"GoToDefinition"}, OneKey)
    \/ Gated(t, Results)
    \/ Traversal(t)
    \/ Truncate(t)
ChaseSpec == InitChase /\ [][NextChase]_vars
FairChaseSpec == ChaseSpec /\ WF_vars(NextChase)

\* Two worker threads serving gated requests for one file, some of which
\* fail: the interpreter may be missing and Jedi may raise.
InitGate == InitWith({Workers}, Uniform({ConfPython, ConfMissing}),
                     MaxRequests, {RelChain}, TRUE)
NextGate ==
  \E t \in Workers :
    \/ Common(t, GatedOps, OneKey)
    \/ Gated(t, FewResults)
    \/ QueryRespond(t)
    \/ Traversal(t)
    \/ Detailing(t)
GateSpec == InitGate /\ [][NextGate]_vars

\* One worker thread serving requests one after another, for both client
\* tokens of the file and any extra confs.
SeqOps == {"OnFileReadyToParse", "DebugInfo", "GetType"}
InitSeq == InitWith({{1}}, [Keys -> ExtraConfs], MaxRequests + 1,
                    {EmptyDict}, TRUE)
NextSeq ==
  \E t \in Workers :
    \/ Common(t, SeqOps, Keys)
    \/ Gated(t, {<<>>, <<DefA>>})
    \/ QueryRespond(t)
SeqSpec == InitSeq /\ [][NextSeq]_vars

\* One or two worker threads running the handlers that stay outside the
\* lock, the two tokens' extra confs naming the interpreter in any way.
InitCache == InitWith({{1}, Workers}, [Keys -> {ConfPython, ConfTilde}],
                      MaxRequests, {EmptyDict}, FALSE)
NextCache == \E t \in Workers : Common(t, UngatedOps, Keys)
CacheSpec == InitCache /\ [][NextCache]_vars

\* One worker thread serving one query that goes to Jedi once.
InitQuery == InitWith({{1}}, Uniform({ConfPython}), 1, {EmptyDict}, TRUE)
NextQuery ==
  \E t \in Workers :
    \/ Common(t, QueryOps, OneKey)
    \/ Gated(t, Results)
    \/ QueryRespond(t)
QuerySpec == InitQuery /\ [][NextQuery]_vars

\* One worker thread computing candidates and detailing them, pass after
\* pass.
InitDetail == InitWith({{1}}, Uniform({ConfPython}), MaxRequests + 1,
                       {EmptyDict}, TRUE)
NextDetail ==
  \E t \in Workers :
    \/ Common(t, {"ComputeCandidatesInner", "DetailCandidates"}, OneKey)
    \/ Gated(t, Results)
    \/ Detailing(t)
DetailSpec == InitDetail /\ [][NextDetail]_vars

\* ----------------------------------------------------------------- C1
\* C1: with the worker threads issuing any mix of the seven gated handlers,
\* at most one thread is inside Jedi at any time, and Jedi never notices
\* being entered while already entered.
MutualExclusion == entered <= 1 /\ ~engine_failed

\* One thread is inside Jedi while another one waits for the lock.
C1Witness ==
  \E t, u \in Workers :
    /\ t # u
    /\ pc[t] = "jedi"
    /\ op[t] = "GoToDefinition"
    /\ pc[u] = "acquire"
    /\ op[u] = "DetailCandidates"

\* ----------------------------------------------------------------- C2
\* C2: the GoToDefinition traversal terminates whatever Jedi answers at the
\* cursor and at the definitions: a thread that has taken a GoToDefinition
\* request leaves the handler (and with it the lock) in the end.
ChaseTerminates ==
  \A t \in Workers : (op[t] = "GoToDefinition") ~> (op[t] = "none")

\* ----------------------------------------------------------------- C3
\* The request the record `last` is about was handler o, and it ran to its
\* end in the completer: no call into Jedi raised.
Completed(o) == last.op = o /\ last.result.kind # "EngineError"

\* e has the name of d and is at another place.
Elsewhere(d, e) ==
  /\ e.name = d.name
  /\ <<e.module_path, e.line, e.column>> # <<d.module_path, d.line, d.column>>

\* At d the alias chain ends / goes on to exactly one definition.
Terminal(d) ==
  \/ d.module_path = ""
  \/ /\ d \in DOMAIN resolve
     /\ \A i \in 1..Len(resolve[d]) : ~Elsewhere(d, resolve[d][i])
Links(d) ==
  /\ d.module_path # ""
  /\ d \in DOMAIN resolve
  /\ Len(resolve[d]) = 1
  /\ Elsewhere(d, resolve[d][1])

RECURSIVE AliasChain(_, _)
\* The linear alias chain <<d0, ..., dn>> that starts at d, or <<>> when
\* there is none of at most `fuel` definitions.
AliasChain(d, fuel) ==
  IF fuel = 0 THEN <<>>
  ELSE IF Terminal(d) THEN <<d>>
  ELSE IF Links(d)
       THEN LET rest == AliasChain(resolve[d][1], fuel - 1)
            IN  IF rest = <<>> THEN <<>> ELSE <<d>> \o rest
       ELSE <<>>

\* The chain from the one definition the cursor resolved to.
DirectChain ==
  IF Len(last.direct) = 1
  THEN AliasChain(last.direct[1], Cardinality(Defs))
  ELSE <<>>

SelfReferenceTerminal ==
  /\ [](LET chain == DirectChain
            dn == chain[Len(chain)]
        IN  (/\ Completed("GoToDefinition")
             /\ chain # <<>>
             /\ dn \in DOMAIN resolve
             /\ resolve[dn] = <<dn>>) =>
              /\ last.rounds <= Len(chain)
              /\ last.definitions = <<dn>>)
  /\ [][\A t \in Workers :
          (/\ pc[t] = "answer"
           /\ op[t] = "GoToDefinition"
           /\ index[t] > 0
           /\ answer[t] = <<previous_definitions[t][index[t]]>>) =>
            /\ keep_traversing'[t] = keep_traversing[t]
            /\ definitions'[t] =
                 Append(definitions[t], previous_definitions[t][index[t]])
            /\ pc'[t] = "for"]_vars

\* DefA led to DefB, DefB to itself only, and the traversal ended there.
C4Witness ==
  /\ Completed("GoToDefinition")
  /\ last.direct = <<DefA>>
  /\ DefB \in DOMAIN resolve
  /\ resolve[DefB] = <<DefB>>
  /\ last.definitions = <<DefB>>
  /\ last.rounds = 2

\* ----------------------------------------------------------------- C5
\* No executable is found for the path.
Unresolvable(path) ==
  path # NoPath /\ NormPath(ExpandVariablesInPath(path)) \notin Executables

\* The interpreter path of the settings of request k.
InterpreterPathOf(k) == GetSettings(extra_conf[k]).interpreter_path

\* C5 as stated: over requests handled one after another, the settings
\* resolution, the per-file environment resolution and the sys.path
\* computation each run at most once per ( filepath, client_data ).
ComputedAtMostOnce ==
  \A k \in Keys :
    /\ settings_runs[k] <= 1
    /\ environment_runs[k] <= 1
    /\ sys_path_runs[k] <= 1

\* C5, amended: over requests handled one after another, the settings
\* resolution and the sys.path computation each run at most once per
\* ( filepath, client_data ), and so does the environment resolution unless
\* no executable is found for the interpreter path; a ( filepath,
\* client_data ) is served from the caches only after a run of its own, so
\* another client_data runs them again.
ComputedOncePerKey ==
  \A k \in Keys :
    /\ settings_runs[k] <= 1
    /\ sys_path_runs[k] <= 1
    /\ ~Unresolvable(InterpreterPathOf(k)) => environment_runs[k] <= 1
    /\ k \in DOMAIN settings_for_file => settings_runs[k] = 1
    /\ k \in DOMAIN environment_for_file => environment_runs[k] = 1
    /\ k \in DOMAIN sys_path_for_file => sys_path_runs[k] = 1

\* All requests of the thread are done, two of them for the same
\* ( filepath, client_data ) and one for the other, with one run each per
\* ( filepath, client_data ).
C5Witness ==
  /\ budget[1] = 0
  /\ pc[1] = "idle"
  /\ \A k \in Keys :
       /\ settings_runs[k] = 1
       /\ environment_runs[k] = 1
       /\ sys_path_runs[k] = 1

\* ----------------------------------------------------------------- C6
\* The executable path the interpreter path of request k resolves to.
ResolvedPathOf(k) == NormPath(ExpandVariablesInPath(InterpreterPathOf(k)))

\* Requests whose interpreter paths resolve to the same executable have the
\* same environment.
SameEnvironmentForSamePath ==
  \A j, k \in DOMAIN environment_for_file :
    ResolvedPathOf(j) = ResolvedPathOf(k) =>
      environment_for_file[j] = environment_for_file[k]

\* C6 as stated: resolutions of interpreter paths that normalize to the
\* same executable return the same environment, and at most one
\* environment is ever constructed per resolved path, be the resolutions
\* sequential or concurrent.
OneEnvironmentPerPath ==
  /\ \A p \in DOMAIN created : created[p] <= 1
  /\ SameEnvironmentForSamePath

\* C6, amended: resolutions handled by one thread, one after another,
\* return the same environment for interpreter paths that normalize to the
\* same executable, one environment being constructed per resolved path;
\* with several worker threads at most one environment per thread is
\* constructed per resolved path.
OneEnvironmentPerPathAndThread ==
  /\ \A p \in DOMAIN created : created[p] <= Cardinality(workers)
  /\ \A p \in DOMAIN created : ~Unresolvable(p)
  /\ Cardinality(workers) = 1 => SameEnvironmentForSamePath

\* One thread has resolved "usr/bin/python3" for one client_data and
\* "~/../usr/bin/python3" for the other to one environment.
C6Witness ==
  /\ workers = {1}
  /\ extra_conf[<<"a.py", "c1">>] = ConfPython
  /\ extra_conf[<<"a.py", "c2">>] = ConfTilde
  /\ DOMAIN environment_for_file = Keys
  /\ environment_for_file[<<"a.py", "c1">>]
       = environment_for_file[<<"a.py", "c2">>]
  /\ created = (PathPython :> 1)

\* ----------------------------------------------------------------- C7
\* C7: a request whose interpreter path is not empty and names no
\* executable fails with ResolutionError, neither environment cache ever
\* holds an entry for it, and so the next such request looks the
\* environment up in vain and resolves again.
FailedResolutionNotCached ==
  /\ \A k \in Keys :
       Unresolvable(InterpreterPathOf(k)) =>
         k \notin DOMAIN environment_for_file
  /\ \A p \in DOMAIN environment_for_interpreter_path : ~Unresolvable(p)
  /\ \A p \in DOMAIN environment_for_interpreter_path :
       environment_for_interpreter_path[p].interpreter_path = p
  /\ (last.op # "none" /\ Unresolvable(InterpreterPathOf(last.request))) =>
       last.result.kind = "ResolutionError"

\* A request has failed with ResolutionError for the second time, after
\* resolving for the second time.
C7Witness ==
  /\ last.op # "none"
  /\ last.result.kind = "ResolutionError"
  /\ environment_runs[last.request] = 2
  /\ last.request \notin DOMAIN environment_for_file
  /\ PathMissing \notin DOMAIN environment_for_interpreter_path

\* ----------------------------------------------------------------- C8
\* C8: GoToType, GoToReferences, GetType and GetDoc fail with
\* NavigationError when the Jedi query returned nothing, and GoToType and
\* GoToReferences return locations when it returned something.
EmptyResultMapping ==
  /\ (\E o \in QueryOps : Completed(o)) /\ last.direct = <<>> =>
       last.result.kind = "NavigationError"
  /\ (Completed("GoToType") \/ Completed("GoToReferences"))
       /\ last.direct # <<>> =>
       last.result.kind \in {"location", "locations"}

\* ----------------------------------------------------------------- C9
\* C9: GetDoc fails with NavigationError when every definition Jedi
\* returned has an empty docstring, however many definitions there are, and
\* returns the documentation otherwise.
NoDocumentationMapping ==
  Completed("GetDoc") =>
    ((\A i \in 1..Len(last.direct) : last.direct[i].docstring = <<>>)
       <=> last.result.kind = "NavigationError")

\* ---------------------------------------------------------------- C10
\* C10: a candidate is detailed at most once and is detailed exactly when
\* that has happened; a DetailCandidates pass that returns leaves every
\* candidate detailed; and no step of a DetailCandidates pass changes any
\* field of a candidate that is detailed, a candidate detailed with an
\* empty location included.
DetailIsOneWay ==
  /\ [](\A i \in 1..Len(candidates) :
          /\ detailed_times[i] <= 1
          /\ candidates[i].extra_data.is_dict <=> detailed_times[i] = 1)
  /\ []((last.op = "DetailCandidates" /\ last.result.kind = "candidates") =>
          \A i \in 1..Len(candidates) : candidates[i].extra_data.is_dict)
  /\ [][(\A t \in Workers : op[t] # "ComputeCandidatesInner") =>
          /\ Len(candidates') = Len(candidates)
          /\ \A i \in 1..Len(candidates) :
               candidates[i].extra_data.is_dict =>
                 candidates'[i] = candidates[i]]_vars

\* A pass has come to the second candidate of a batch, which an earlier
\* pass detailed with an empty location.
C10Witness ==
  /\ pc[1] = "detail"
  /\ index[1] = 1
  /\ Len(candidates) = 2
  /\ candidates[2].extra_data.is_dict
  /\ candidates[2].extra_data.location = <<>>
  /\ candidates[2].extra_menu_info = <<"f", "(", "x", ")">>
  /\ detailed_times[2] = 1

\* ---------------------------------------------------------------- C11
\* Two definitions are at the same place.
SamePlace(d, e) ==
  <<d.module_path, d.line, d.column>> = <<e.module_path, e.line, e.column>>

\* GoToDefinition has returned the locations of last.definitions.
Returned ==
  last.op = "GoToDefinition" /\ last.result.kind \in {"location", "locations"}

\* C11: the definitions GoToDefinition returns hold no two entries with the
\* same ( module_path, line, column ).
NoDuplicateDefinitions ==
  Returned =>
    \A i, j \in 1..Len(last.definitions) :
      SamePlace(last.definitions[i], last.definitions[j]) => i = j

\* ---------------------------------------------------------------- C12
\* The traversal of the request `last` is about came to its end (it was
\* not given up for its length).
Traversed == Completed("GoToDefinition") /\ last.result.kind # "Truncated"

\* The ( path, line, column + 1[, description] ) entry of definition d.
Entry(d, described) ==
  [filepath |-> d.module_path, line_num |-> d.line,
   column_num |-> d.column + 1,
   description |-> IF described THEN d.description ELSE <<>>]

\* C12: GoToDefinition fails with NavigationError exactly when it ends with
\* no definition; it returns one location when it ends with one definition
\* and otherwise a list of ( path, line, column + 1, description ), one per
\* definition, in the order of the definitions.
GoToResponseShape ==
  Traversed =>
    /\ last.definitions = <<>> <=> last.result.kind = "NavigationError"
    /\ Len(last.definitions) = 1 =>
         /\ last.result.kind = "location"
         /\ last.result.locations = <<Entry(last.definitions[1], FALSE)>>
    /\ Len(last.definitions) > 1 =>
         /\ last.result.kind = "locations"
         /\ last.result.locations =
              [i \in 1..Len(last.definitions) |->
                 Entry(last.definitions[i], TRUE)]

\* ---------------------------------------------------------------- C13
\* C13: no thread ever waits for the Jedi lock while it holds the lock
\* itself, whatever the gated handlers and the helpers they call under the
\* lock do.
NeverReentered == \A t \in Workers : pc[t] = "acquire" => jedi_lock # t

\* A thread in the traversal of GoToDefinition is building the jedi.Script
\* of a definition, under the lock.
C13Witness ==
  \E t \in Workers :
    /\ jedi_lock = t
    /\ op[t] = "GoToDefinition"
    /\ index[t] > 0
    /\ pc[t] = "sys_lookup"

\* ---------------------------------------------------------------- C14
\* C14: in every step of every interleaving, the keys of the settings cache,
\* of the environment cache per file, of the environment cache per
\* interpreter path and of the sys.path cache are kept: each key set only
\* grows.
CachesOnlyGrow ==
  [][ /\ DOMAIN settings_for_file \subseteq DOMAIN settings_for_file'
      /\ DOMAIN environment_for_file \subseteq DOMAIN environment_for_file'
      /\ DOMAIN environment_for_interpreter_path
           \subseteq DOMAIN environment_for_interpreter_path'
      /\ DOMAIN sys_path_for_file \subseteq DOMAIN sys_path_for_file' ]_vars

\* Every per-request cache holds every key, and entries of both
\* interpreters are cached.
C14Witness ==
  /\ DOMAIN settings_for_file = Keys
  /\ DOMAIN environment_for_file = Keys
  /\ DOMAIN sys_path_for_file = Keys
  /\ Cardinality(Keys) > 1
  /\ DOMAIN environment_for_interpreter_path # {}

\* ---------------------------------------------------------------- C15
\* C15: a GoToDefinition request holds the lock from before its first
\* goto_assignments() call until it returns, through every round of the
\* traversal; meanwhile no other thread is inside Jedi or between the Jedi
\* calls of a gated handler.
ChaseIsOneCriticalSection ==
  \A t \in Workers :
    (op[t] = "GoToDefinition" /\ pc[t] \notin {"idle", "acquire"}) =>
      /\ jedi_lock = t
      /\ \A u \in Workers \ {t} :
           /\ pc[u] \notin {"script", "jedi", "answer"}
           /\ op[u] \in GatedOps => pc[u] = "acquire"

\* A traversal is in its second round or later, inside goto_assignments() at
\* a definition, while another GoToDefinition request waits for the lock.
C15Witness ==
  \E t, u \in Workers :
    /\ t # u
    /\ op[t] = "GoToDefinition"
    /\ rounds[t] >= 2
    /\ index[t] > 0
    /\ pc[t] = "jedi"
    /\ op[u] = "GoToDefinition"
    /\ pc[u] = "acquire"

\* ---------------------------------------------------------------- C16
\* The sys.path the extra conf `conf` and the environment `env` stand for:
\* the configured list followed by the default sys.path of the environment,
\* or what PythonSysPath makes of it and of the executable.
EffectiveSysPath(conf, env) ==
  LET computed == GetSettings(conf).sys_path \o EnvSysPath(env)
  IN  IF conf.has_module /\ conf.has_python_sys_path
      THEN PythonSysPathOverride([interpreter_path |-> env.executable,
                                  sys_path_set |-> TRUE,
                                  sys_path |-> computed])
      ELSE computed

\* C16: the sys.path cached for a key is the return value of PythonSysPath
\* (called with the environment's executable and the configured list
\* followed by the environment's default sys.path) when the extra conf
\* defines it and that computed list otherwise, and DebugInfo is answered
\* with that same path whenever it is asked for the key.
SearchPathAsConfigured ==
  /\ \A k \in DOMAIN sys_path_for_file :
       /\ k \in DOMAIN environment_for_file
       /\ sys_path_for_file[k] =
            EffectiveSysPath(extra_conf[k], environment_for_file[k])
  /\ (last.op = "DebugInfo" /\ last.result.kind = "debug_info") =>
       last.result.text =
         EffectiveSysPath(extra_conf[last.request],
                          environment_for_file[last.request])

\* ---------------------------------------------------------------- C17
\* C17: whenever the traversal of GoToDefinition comes to its end, every
\* definition of the final list is terminal: it has no module path, or
\* goto_assignments() at its own site gave no definition of the same name at
\* another place.  No definition that was replaced by others when it was
\* last looked at is in the list.
ResultIsFixpoint ==
  Traversed =>
    \A i \in 1..Len(last.definitions) : Terminal(last.definitions[i])

\* Several locations are returned after a round that replaced definitions
\* and a round that replaced none; none of them is what the cursor resolved
\* to directly.
C17Witness ==
  /\ last.op = "GoToDefinition"
  /\ last.result.kind = "locations"
  /\ last.rounds >= 2
  /\ \A i \in 1..Len(last.definitions), j \in 1..Len(last.direct) :
       last.definitions[i] # last.direct[j]

\* ---------------------------------------------------------------- C18
\* C18: the lock is held only by a thread that is inside a gated handler,
\* past its `with self._jedi_lock`: however a gated handler ends
\* (NavigationError, the RuntimeError of a missing interpreter, an exception
\* out of Jedi, also in the middle of the traversal of GoToDefinition), the
\* lock is free afterwards, and it is free whenever no handler is running.
LockReleasedOnExit ==
  /\ \A t \in Workers :
       jedi_lock = t => (op[t] \in GatedOps /\ pc[t] \notin {"idle", "acquire"})
  /\ (\A t \in Workers : pc[t] = "idle") => jedi_lock = NoThread
  /\ jedi_lock \in Workers \cup {NoThread}

\* GoToDefinition was left by an exception out of Jedi in the middle of its
\* traversal, and a later handler has taken the lock and is inside Jedi.
C18Witness ==
  /\ last.op = "GoToDefinition"
  /\ last.result.kind = "EngineError"
  /\ last.rounds >= 1
  /\ \E u \in Workers : jedi_lock = u /\ pc[u] = "jedi"

\* ---------------------------------------------------------------- C19
\* The environment h was constructed and stored in the cache per interpreter
\* path (lines 108-110) at some time.
WasStored(h) ==
  /\ h.interpreter_path \in DOMAIN environment_for_interpreter_path
  /\ h.interpreter_path \in DOMAIN created
  /\ h.serial \in 1..created[h.interpreter_path]

\* C19: in every reachable state of every interleaving, each key of the
\* sys.path cache is a key of the environment cache per file, each key of
\* the environment cache per file is a key of the settings cache, and each
\* environment in the cache per file is one that was stored in the cache per
\* interpreter path.
CacheConsistency ==
  /\ DOMAIN sys_path_for_file \subseteq DOMAIN environment_for_file
  /\ DOMAIN environment_for_file \subseteq DOMAIN settings_for_file
  /\ \A k \in DOMAIN environment_for_file : WasStored(environment_for_file[k])

\* All caches are filled for one key while the other key has its settings
\* and environment but no sys.path yet; the stored environment is not the
\* one the cache per interpreter path holds now.
C19Witness ==
  \E k, l \in Keys :
    /\ k \in DOMAIN sys_path_for_file
    /\ l \in DOMAIN environment_for_file \ DOMAIN sys_path_for_file
    /\ environment_for_file[l] #
         environment_for_interpreter_path[environment_for_file[l].interpreter_path]

\* ---------------------------------------------------------------- C20
\* How often x is an entry of the list.
Occurrences(list, x) == Cardinality({i \in 1..Len(list) : list[i] = x})

\* C20: the settings cached for a key stay what _GetSettings returned for
\* it, whatever is computed from them, and every entry of the environment's
\* default sys.path is in the cached sys.path of the key exactly once, also
\* when the sys.path of the key was computed more than once.
SettingsKeptBySearchPath ==
  /\ \A k \in DOMAIN settings_for_file :
       settings_for_file[k] = GetSettings(extra_conf[k])
  /\ \A k \in DOMAIN sys_path_for_file :
       \A i \in 1..Len(EnvSysPath(environment_for_file[k])) :
         Occurrences(sys_path_for_file[k],
                     EnvSysPath(environment_for_file[k])[i]) = 1

====
